---- MODULE Spec2Model ----
(***************************************************************************)
(* Model of the map component of fintech-map (src/src/components/          *)
(* SpainMap.tsx): province-name resolution, the archipelago split, the     *)
(* measurements of a region, the per-province centroid table, the loading *)
(* of the collection, the avatar markers and the hover/selection styling  *)
(* of the rendered layers; and of the page that renders it (src/src/       *)
(* routes/index.tsx): the session, the profile loads and the confirmation *)
(* of a province.                                                          *)
(*                                                                         *)
(* Numbers.  Latitudes and longitudes are integers in hundredths of a      *)
(* degree (39.6 is 3960), so every anchor of ISLAND_SPLIT_ANCHORS is       *)
(* exact.  A mean of n vertices is kept as the pair (sum, n) and distances *)
(* are compared after multiplying by n^2, which keeps the order of the     *)
(* code's floating-point comparison wherever that comparison is exact.     *)
(***************************************************************************)
EXTENDS Integers, Sequences, FiniteSets, Bags, TLC

VARIABLES
    feature,        \* splitIslandFeature: the argument
    provinceName,   \* splitIslandFeature: its local provinceName (line 534)
    splitResult,    \* splitIslandFeature: the array it returned
    splitPc,        \* "call" before the call, "returned" / "threw" after it
    measurement,    \* featureCentroid and featureAreaScore of the argument
    data,           \* the feature collection the fetch delivers
    fetchPc,        \* "mounted" until the effect of lines 695-703 has run,
                    \* "pending" until its fetch has settled
    fetchCount,     \* the number of fetch calls made so far
    geoData,        \* useState geoData: null, or the split collection
    error,          \* useState error: null, or the message
    provinceCentroids,  \* useMemo provinceCentroids for the current geoData
    selectedProvince,   \* prop selectedProvince
    profiles,           \* prop profiles
    dialogOpen,         \* prop dialogOpen
    layerOptions,       \* the Leaflet path options of each rendered layer
    prevHoveredRef,     \* useRef prevHoveredRef.current
    hovered,            \* useState hovered
    mouseoverBranch,    \* what lines 714-721 did in the mouseover just handled
    selectCalls,        \* the arguments onProvinceSelect was called with
    avatarMarkers,      \* useMemo avatarMarkers, once it has been computed
    session,            \* App: useState session
    loading,            \* App: useState loading
    myProvince,         \* App: useState myProvince
    confirmOpen,        \* App: useState confirmOpen
    pendingProvince,    \* App: useState pendingProvince
    saving,             \* App: useState saving
    toast,              \* the toast shown last
    table,              \* the rows of the table profiles, newest updated_at first
    loadCalls,          \* the loadProfiles calls of the effect of line 67 that
                        \* have not settled, counted by the session they closed over
    confirmCall         \* handleConfirmProvince: where the call in progress
                        \* stands, what it closed over, and how the last one ended

splitVars == <<feature, provinceName, splitResult, splitPc, measurement>>
loadVars == <<data, fetchPc, fetchCount, geoData, error, provinceCentroids>>
propVars == <<selectedProvince, profiles, dialogOpen>>
mapVars == <<layerOptions, prevHoveredRef, hovered, mouseoverBranch, selectCalls>>
pageVars == <<session, loading, myProvince, confirmOpen, pendingProvince, saving,
              toast, table, loadCalls, confirmCall>>

vars == <<feature, provinceName, splitResult, splitPc, measurement,
          data, fetchPc, fetchCount, geoData, error, provinceCentroids,
          selectedProvince, profiles, dialogOpen,
          layerOptions, prevHoveredRef, hovered, mouseoverBranch, selectCalls,
          avatarMarkers,
          session, loading, myProvince, confirmOpen, pendingProvince, saving,
          toast, table, loadCalls, confirmCall>>

(***************************************************************************)
(* Bounds                                                                  *)
(***************************************************************************)
\* Largest number of polygon pieces of a MultiPolygon given to the split.
MaxPieces == 4
\* Largest number of features of a fetched collection.
MaxFeatures == 3
\* Largest number of onProvinceSelect calls that are recorded.
MaxCalls == 1

(***************************************************************************)
(* JavaScript values of a GeoJSON property bag                             *)
(***************************************************************************)
Undefined == [type |-> "undefined", str |-> ""]
Null == [type |-> "null", str |-> ""]
Str(s) == [type |-> "string", str |-> s]
\* A property that holds a number (any non-string value behaves alike).
NumberValue == [type |-> "number", str |-> ""]

PropKeys == {"name", "NAME", "provincia", "mapProvinceName", "mapDisplayName"}

\* feature.properties === null
NullProperties == [isNull |-> TRUE, bag |-> [k \in PropKeys |-> Undefined]]

\* An object literal holding the given keys; every other key is undefined.
Properties(given) ==
    [isNull |-> FALSE,
     bag |-> [k \in PropKeys |-> IF k \in DOMAIN given THEN given[k] ELSE Undefined]]

\* a ?? b
Coalesce(a, b) == IF a.type \in {"null", "undefined"} THEN b ELSE a

(***************************************************************************)
(* Name resolution                                                         *)
(***************************************************************************)
\* The lookup without the typeof test: any present value is returned.
getStringPropertyNoTypeCheck(f, key) ==
    LET value == IF f.properties.isNull THEN Undefined ELSE f.properties.bag[key]
    IN  IF value.type = "undefined" THEN Null ELSE value

\* typeof value === "string" ? value : null
getStringProperty(f, key) ==
    LET value == IF f.properties.isNull THEN Undefined ELSE f.properties.bag[key]
    IN  IF value.type = "string" THEN value ELSE Null

\* The chain with NAME tried ahead of name.
getRawProvinceNameWrongOrder(f) ==
    Coalesce(getStringProperty(f, "NAME"),
      Coalesce(getStringProperty(f, "name"),
        Coalesce(getStringProperty(f, "provincia"), Str("Desconocida")))).str

getRawProvinceName(f) ==
    Coalesce(getStringProperty(f, "name"),
      Coalesce(getStringProperty(f, "NAME"),
        Coalesce(getStringProperty(f, "provincia"), Str("Desconocida")))).str

getProvinceName(f) ==
    Coalesce(getStringProperty(f, "mapProvinceName"), Str(getRawProvinceName(f))).str

getFeatureLabel(f) ==
    Coalesce(getStringProperty(f, "mapDisplayName"), Str(getRawProvinceName(f))).str

(***************************************************************************)
(* The anchor table                                                        *)
(***************************************************************************)
ISLAND_SPLIT_ANCHORS ==
    [n \in {"Illes Balears", "Las Palmas", "Santa Cruz De Tenerife"} |->
        CASE n = "Illes Balears" ->
                << [name |-> "Mallorca", lat |-> 3960, lng |-> 290],
                   [name |-> "Menorca", lat |-> 3995, lng |-> 410],
                   [name |-> "Ibiza", lat |-> 3898, lng |-> 143],
                   [name |-> "Formentera", lat |-> 3870, lng |-> 145] >>
          [] n = "Las Palmas" ->
                << [name |-> "Lanzarote", lat |-> 2903, lng |-> -1363],
                   [name |-> "Fuerteventura", lat |-> 2836, lng |-> -1405],
                   [name |-> "Gran Canaria", lat |-> 2795, lng |-> -1560] >>
          [] n = "Santa Cruz De Tenerife" ->
                << [name |-> "Tenerife", lat |-> 2829, lng |-> -1662],
                   [name |-> "La Palma", lat |-> 2869, lng |-> -1786],
                   [name |-> "La Gomera", lat |-> 2811, lng |-> -1723],
                   [name |-> "El Hierro", lat |-> 2773, lng |-> -1803] >>]

\* ISLAND_SPLIT_ANCHORS is an object literal, so indexing it also finds the
\* members it inherits from Object.prototype: functions and objects, all
\* truthy and none of them an array.
ObjectPrototypeKeys ==
    {"constructor", "toString", "valueOf", "hasOwnProperty", "isPrototypeOf",
     "propertyIsEnumerable", "toLocaleString", "__proto__"}

\* ISLAND_SPLIT_ANCHORS[provinceName]
LookupAnchors(raw) ==
    IF raw \in DOMAIN ISLAND_SPLIT_ANCHORS
    THEN [kind |-> "anchors", anchors |-> ISLAND_SPLIT_ANCHORS[raw]]
    ELSE IF raw \in ObjectPrototypeKeys
         THEN [kind |-> "inherited", anchors |-> <<>>]
         ELSE [kind |-> "undefined", anchors |-> <<>>]

(***************************************************************************)
(* Piece geometry                                                          *)
(***************************************************************************)
\* coord[i] ?? 0, for the 0-based index i of the code
CoordOrZero(coord, i) == IF i + 1 <= Len(coord) THEN coord[i + 1] ELSE 0

RECURSIVE SumCoord(_, _, _)
\* The running sum of lines 526-529 over ring[0 .. k-1].
SumCoord(ring, i, k) ==
    IF k = 0 THEN 0 ELSE SumCoord(ring, i, k - 1) + CoordOrZero(ring[k], i)

\* A variant of the mean that runs over the vertices of every ring.
polygonCentroidAllRings(polygon) ==
    LET RECURSIVE Flat(_)
        Flat(k) == IF k = 0 THEN <<>> ELSE Flat(k - 1) \o polygon[k]
        ring == Flat(Len(polygon))
    IN  IF Len(ring) = 0
        THEN [lat |-> 0, lng |-> 0, den |-> 1]
        ELSE [lat |-> SumCoord(ring, 1, Len(ring)),
              lng |-> SumCoord(ring, 0, Len(ring)),
              den |-> Len(ring)]

\* The mean without the guard of line 522: 0 / 0 for an empty ring, which no
\* comparison of line 512 finds smaller than anything.
polygonCentroidNoGuard(polygon) ==
    LET ring == IF Len(polygon) >= 1 THEN polygon[1] ELSE <<>>
    IN  [lat |-> SumCoord(ring, 1, Len(ring)),
         lng |-> SumCoord(ring, 0, Len(ring)),
         den |-> Len(ring)]

\* The point (lat / den, lng / den).
polygonCentroid(polygon) ==
    LET ring == IF Len(polygon) >= 1 THEN polygon[1] ELSE <<>>
    IN  IF Len(ring) = 0
        THEN [lat |-> 0, lng |-> 0, den |-> 1]
        ELSE [lat |-> SumCoord(ring, 1, Len(ring)),
              lng |-> SumCoord(ring, 0, Len(ring)),
              den |-> Len(ring)]

\* Number.POSITIVE_INFINITY, and a finite distance
Infinity == [inf |-> TRUE, val |-> 0]
Finite(d) == [inf |-> FALSE, val |-> d]

\* distance < bestDistance
DistanceLess(distance, bestDistance) == bestDistance.inf \/ distance < bestDistance.val

\* latDiff * latDiff + lngDiff * lngDiff for the point c, times c.den^2
AnchorDistance(anchor, c) ==
    LET latDiff == anchor.lat * c.den - c.lat
        lngDiff == anchor.lng * c.den - c.lng
    IN  latDiff * latDiff + lngDiff * lngDiff

RECURSIVE nearestLoopStaleBest(_, _, _, _, _)
\* The loop with line 514 dropped: bestDistance stays at infinity.
nearestLoopStaleBest(c, anchors, i, best, bestDistance) ==
    IF i > Len(anchors)
    THEN best
    ELSE IF DistanceLess(AnchorDistance(anchors[i], c), bestDistance)
         THEN nearestLoopStaleBest(c, anchors, i + 1, anchors[i], bestDistance)
         ELSE nearestLoopStaleBest(c, anchors, i + 1, best, bestDistance)

nearestAnchorStaleBest(c, anchors) ==
    nearestLoopStaleBest(c, anchors, 1, anchors[1], Infinity)

RECURSIVE nearestLoop(_, _, _, _, _)
\* The for loop of lines 508-516, entered at the anchor of index i.
nearestLoop(c, anchors, i, best, bestDistance) ==
    IF i > Len(anchors)
    THEN best
    ELSE LET distance == AnchorDistance(anchors[i], c)
         IN  IF DistanceLess(distance, bestDistance)
             THEN nearestLoop(c, anchors, i + 1, anchors[i], Finite(distance))
             ELSE nearestLoop(c, anchors, i + 1, best, bestDistance)

\* nearestAnchor(lat, lng, anchors) for the point c = (lat, lng)
nearestAnchor(c, anchors) == nearestLoop(c, anchors, 1, anchors[1], Infinity)

(***************************************************************************)
(* splitIslandFeature                                                      *)
(***************************************************************************)
AnchorNames(anchors) == {anchors[i].name : i \in 1..Len(anchors)}

RECURSIVE GroupsAfterOverwrite(_, _, _)
\* The grouping with groups.set(name, [polygon]) in place of the push.
GroupsAfterOverwrite(anchors, coordinates, k) ==
    IF k = 0
    THEN [n \in AnchorNames(anchors) |-> <<>>]
    ELSE LET anchor == nearestAnchor(polygonCentroid(coordinates[k]), anchors)
         IN  [GroupsAfterOverwrite(anchors, coordinates, k - 1)
                 EXCEPT ![anchor.name] = <<coordinates[k]>>]

GroupPiecesOverwrite(anchors, coordinates) ==
    GroupsAfterOverwrite(anchors, coordinates, Len(coordinates))

RECURSIVE GroupsAfter(_, _, _)
\* The Map groups once the loop of lines 543-547 has taken the first k pieces.
GroupsAfter(anchors, coordinates, k) ==
    IF k = 0
    THEN [n \in AnchorNames(anchors) |-> <<>>]
    ELSE LET anchor == nearestAnchor(polygonCentroid(coordinates[k]), anchors)
         IN  [GroupsAfter(anchors, coordinates, k - 1)
                 EXCEPT ![anchor.name] = Append(@, coordinates[k])]

\* The Map groups after lines 540-547.
GroupPieces(anchors, coordinates) == GroupsAfter(anchors, coordinates, Len(coordinates))

\* The sub-region with mapProvinceName and mapDisplayName exchanged.
SubRegionSwappedNames(f, raw, anchor, coordinates) ==
    [properties |->
        [isNull |-> FALSE,
         bag |-> [f.properties.bag EXCEPT !["mapProvinceName"] = Str(anchor.name),
                                          !["mapDisplayName"] = Str(raw)]],
     geometry |-> [type |-> "MultiPolygon", coordinates |-> coordinates]]

\* The sub-region with the geometry the spread of line 555 copies from the
\* feature, not replaced by the pieces of the anchor.
SubRegionWholeGeometry(f, raw, anchor, coordinates) ==
    [properties |->
        [isNull |-> FALSE,
         bag |-> [f.properties.bag EXCEPT !["mapProvinceName"] = Str(raw),
                                          !["mapDisplayName"] = Str(anchor.name)]],
     geometry |-> f.geometry]

\* The object literal of lines 554-565: the feature's own members, the two
\* label properties written over its properties, and the new geometry.
SubRegion(f, raw, anchor, coordinates) ==
    [properties |->
        [isNull |-> FALSE,
         bag |-> [f.properties.bag EXCEPT !["mapProvinceName"] = Str(raw),
                                          !["mapDisplayName"] = Str(anchor.name)]],
     geometry |-> [type |-> "MultiPolygon", coordinates |-> coordinates]]

RECURSIVE SplitFeaturesFrom(_, _, _, _, _)
\* The array splitFeatures built by lines 549-566 from the anchor of index i on.
SplitFeaturesFrom(f, raw, anchors, groups, i) ==
    IF i > Len(anchors)
    THEN <<>>
    ELSE LET coordinates == groups[anchors[i].name]
             rest == SplitFeaturesFrom(f, raw, anchors, groups, i + 1)
         IN  IF Len(coordinates) = 0
             THEN rest
             ELSE <<SubRegion(f, raw, anchors[i], coordinates)>> \o rest

\* return splitFeatures, without the fallback to the original feature
SplitOrOriginalNoFallback(splitFeatures, f) == splitFeatures

\* splitFeatures.length > 0 ? splitFeatures : [feature]
SplitOrOriginal(splitFeatures, f) ==
    IF Len(splitFeatures) > 0 THEN splitFeatures ELSE <<f>>

Returned(value) == [threw |-> FALSE, value |-> value]
\* anchors.forEach is not a function
ThrewTypeError == [threw |-> TRUE, value |-> <<>>]

\* !anchors || feature.geometry.type !== "MultiPolygon"
PassesThrough(f) ==
    LookupAnchors(getRawProvinceName(f)).kind = "undefined"
        \/ f.geometry.type # "MultiPolygon"

splitIslandFeature(f) ==
    LET raw == getRawProvinceName(f)
        found == LookupAnchors(raw)
    IN  IF PassesThrough(f)
        THEN Returned(<<f>>)
        ELSE IF found.kind = "inherited"
             THEN ThrewTypeError
             ELSE LET groups == GroupPieces(found.anchors, f.geometry.coordinates)
                  IN  Returned(SplitOrOriginal(
                          SplitFeaturesFrom(f, raw, found.anchors, groups, 1), f))

\* The array a piece is pushed onto at line 545 with its place among the
\* arrays the call can reach: the array line 542 created for the anchor,
\* which is no array of the feature.
PushTargetIsSource(f, anchor) == "feature.geometry.coordinates"

PushTarget(f, anchor) == "groups.get(anchor.name)"

RECURSIVE CoordinatesAfterPushes(_, _, _)
\* feature.geometry.coordinates as the loop of lines 543-547 leaves it once
\* it has taken the first k pieces: a push lengthens it only when the array
\* pushed onto is this one.
CoordinatesAfterPushes(f, anchors, k) ==
    IF k = 0
    THEN f.geometry.coordinates
    ELSE LET before == CoordinatesAfterPushes(f, anchors, k - 1)
             piece == f.geometry.coordinates[k]
             anchor == nearestAnchor(polygonCentroid(piece), anchors)
         IN  IF PushTarget(f, anchor) = "feature.geometry.coordinates"
             THEN Append(before, piece)
             ELSE before

\* The argument as a call of splitIslandFeature leaves it.  The writes of
\* the function are groups.set (542), the push of line 545 and
\* splitFeatures.push (554); the Map and splitFeatures are created by the
\* call itself, and the spreads of lines 555-560 copy.
FeatureAfterSplit(f) ==
    LET found == LookupAnchors(getRawProvinceName(f))
    IN  IF PassesThrough(f) \/ found.kind = "inherited"
        THEN f
        ELSE [f EXCEPT !.geometry.coordinates =
                 CoordinatesAfterPushes(f, found.anchors, Len(f.geometry.coordinates))]

(***************************************************************************)
(* Inputs of the split                                                     *)
(***************************************************************************)
\* Polygon pieces, each a sequence of rings of <<lng, lat>> positions.
PieceMallorca == << << <<290, 3960>>, <<300, 3970>>, <<280, 3950>> >> >>
\* Outer ring off Menorca (its mean is no whole number), hole ring on Mallorca.
PieceMenorcaWithHole ==
    << << <<410, 3995>>, <<411, 3996>> >>,
       << <<290, 3960>>, <<290, 3961>>, <<291, 3960>>, <<289, 3959>> >> >>
PieceIbiza == << << <<143, 3898>>, <<141, 3900>> >> >>
PieceFormentera == << << <<145, 3870>>, <<146, 3869>>, <<145, 3868>> >> >>
\* Halfway between the anchors of Ibiza and Formentera.
PieceBetweenIbizaAndFormentera == << << <<144, 3884>> >> >>
\* An empty outer ring, no ring at all, and a position with no latitude.
PieceEmptyRing == << <<>> >>
PieceNoRing == <<>>
PieceShortPosition == << << <<410>>, <<410, 7990>> >> >>

PiecePool ==
    {PieceMallorca, PieceMenorcaWithHole, PieceIbiza, PieceFormentera,
     PieceBetweenIbizaAndFormentera, PieceEmptyRing, PieceNoRing,
     PieceShortPosition}

SeqsUpTo(S, n) == UNION {[1..k -> S] : k \in 0..n}

MultiPolygonOf(coordinates) == [type |-> "MultiPolygon", coordinates |-> coordinates]
\* A Polygon's coordinates are its rings.
PolygonOf(rings) == [type |-> "Polygon", coordinates |-> rings]

NameValues == {Undefined, NumberValue, Str(""), Str("Madrid"), Str("Illes Balears")}

\* Every way of filling the three name keys.
NameBags ==
    {Properties([name |-> a, NAME |-> b, provincia |-> c]) :
        a \in NameValues, b \in NameValues, c \in NameValues}
      \cup {NullProperties}

BalearicBags ==
    {Properties([name |-> Str("Illes Balears")]),
     Properties([name |-> NumberValue, NAME |-> Str("Illes Balears"),
                 mapProvinceName |-> Str("Madrid"), mapDisplayName |-> Str("Centro")])}

OtherBags ==
    {Properties([name |-> Str(n)]) :
        n \in {"Las Palmas", "Santa Cruz De Tenerife", "Madrid", "constructor"}}
      \cup {NullProperties,
            Properties([name |-> Str("Madrid"), mapProvinceName |-> Str("Toledo"),
                        mapDisplayName |-> Str("Centro")])}

FeatureInputs ==
    {[properties |-> b, geometry |-> MultiPolygonOf(c)] :
        b \in BalearicBags, c \in SeqsUpTo(PiecePool, MaxPieces)}
      \cup {[properties |-> b, geometry |-> MultiPolygonOf(c)] :
                b \in OtherBags, c \in SeqsUpTo(PiecePool, 1)}
      \cup {[properties |-> b, geometry |-> PolygonOf(PieceMallorca)] :
                b \in NameBags \cup BalearicBags \cup OtherBags}

NoResult == <<>>

\* The values the variables of the page hold while one call of the split is
\* looked at on its own.
NothingFetched == [features |-> <<>>]
NoGeoData == [isNull |-> TRUE, features |-> <<>>]
GeoData(features) == [isNull |-> FALSE, features |-> features]
NoError == [isNull |-> TRUE, message |-> ""]
Error(message) == [isNull |-> FALSE, message |-> message]
EmptyMap == <<>>

NoProvince == [isNull |-> TRUE, str |-> ""]
Province(n) == [isNull |-> FALSE, str |-> n]
NoLayer == [isNull |-> TRUE, layer |-> 0, province |-> "", mounted |-> FALSE]
NoHovered == [isNull |-> TRUE, label |-> "", province |-> ""]
NotMeasured == [measured |-> FALSE, center |-> <<>>, score |-> 0]
NotComputed == [computed |-> FALSE, markers |-> <<>>]

\* No map is rendered.
MapIdle ==
    /\ selectedProvince = NoProvince
    /\ profiles = <<>>
    /\ dialogOpen = FALSE
    /\ layerOptions = <<>>
    /\ prevHoveredRef = NoLayer
    /\ hovered = NoHovered
    /\ mouseoverBranch = "none"
    /\ selectCalls = <<>>

\* The markers are not looked at.
MarkersIdle == avatarMarkers = NotComputed

NoSession == [isNull |-> TRUE, user |-> [id |-> ""]]
Session(userId) == [isNull |-> FALSE, user |-> [id |-> userId]]
NoId == [isNull |-> TRUE, num |-> 0]
Id(n) == [isNull |-> FALSE, num |-> n]
NoCall == [pc |-> "idle", session |-> NoSession, pendingProvince |-> NoProvince,
           provinciaId |-> NoId, outcome |-> "none"]

\* The page is not looked at.
PageIdle ==
    /\ session = NoSession
    /\ loading = FALSE
    /\ myProvince = NoProvince
    /\ confirmOpen = FALSE
    /\ pendingProvince = NoProvince
    /\ saving = FALSE
    /\ toast = "none"
    /\ table = <<>>
    /\ loadCalls = <<>>
    /\ confirmCall = NoCall

LoadIdle ==
    /\ data = NothingFetched
    /\ fetchPc = "idle"
    /\ fetchCount = 0
    /\ geoData = NoGeoData
    /\ error = NoError
    /\ provinceCentroids = EmptyMap

(***************************************************************************)
(* The split of one feature                                                *)
(***************************************************************************)
InitSplit ==
    /\ feature \in FeatureInputs
    /\ provinceName = ""
    /\ splitResult = NoResult
    /\ splitPc = "call"
    /\ measurement = NotMeasured
    /\ LoadIdle
    /\ MapIdle
    /\ MarkersIdle
    /\ PageIdle

\* One call of splitIslandFeature(feature).
SplitIslandFeature ==
    /\ splitPc = "call"
    /\ provinceName' = getRawProvinceName(feature)
    /\ LET r == splitIslandFeature(feature)
       IN  /\ splitResult' = r.value
           /\ splitPc' = IF r.threw THEN "threw" ELSE "returned"
    /\ feature' = FeatureAfterSplit(feature)
    /\ UNCHANGED measurement
    /\ UNCHANGED <<loadVars, propVars, mapVars, avatarMarkers, pageVars>>

NextSplit == SplitIslandFeature

SpecSplit == InitSplit /\ [][NextSplit]_vars

(***************************************************************************)
(* Properties of the split (checked under SpecSplit)                       *)
(***************************************************************************)
\* The call is over and its argument was an archipelago province (a raw name
\* listed in the anchor table) given as a MultiPolygon.
ArchipelagoMultiPolygon ==
    /\ splitPc # "call"
    /\ getRawProvinceName(feature) \in DOMAIN ISLAND_SPLIT_ANCHORS
    /\ feature.geometry.type = "MultiPolygon"

InputPieces == feature.geometry.coordinates
InputAnchors == ISLAND_SPLIT_ANCHORS[getRawProvinceName(feature)]

Occurrences(pieces, p) == Cardinality({k \in 1..Len(pieces) : pieces[k] = p})

RECURSIVE SumOver(_, _, _)
SumOver(Op(_), s, k) == IF k = 0 THEN 0 ELSE SumOver(Op, s, k - 1) + Op(s[k])

PieceVertices(piece) == SumOver(Len, piece, Len(piece))
VerticesOf(f) == SumOver(PieceVertices, f.geometry.coordinates, Len(f.geometry.coordinates))
PiecesOf(f) == Len(f.geometry.coordinates)

\* C1: the split of an archipelago MultiPolygon loses and duplicates no
\* piece: every piece occurs in the outputs as often as in the input, the
\* outputs hold no other piece, and their vertices sum to no less than the
\* input's.
SplitPreservesPieces ==
    (splitPc = "returned" /\ ArchipelagoMultiPolygon) =>
        /\ \A p \in PiecePool :
              LET InOutput(f) == Occurrences(f.geometry.coordinates, p)
              IN  SumOver(InOutput, splitResult, Len(splitResult))
                    = Occurrences(InputPieces, p)
        /\ SumOver(PiecesOf, splitResult, Len(splitResult)) = Len(InputPieces)
        /\ SumOver(VerticesOf, splitResult, Len(splitResult)) >= VerticesOf(feature)

\* A split into three or more sub-regions, one of them holding two pieces.
SplitPreservesPiecesWitness ==
    /\ splitPc = "returned"
    /\ ArchipelagoMultiPolygon
    /\ Len(InputPieces) = 4
    /\ Len(splitResult) = 3
    /\ VerticesOf(feature) > 0

\* Sum of coordinate i (1 = lng, 2 = lat) over the positions of a ring.
RingTotal(ring, i) ==
    LET At(pos) == IF Len(pos) >= i THEN pos[i] ELSE 0
    IN  SumOver(At, ring, Len(ring))

\* Squared distance from the anchor to the mean of the piece's outer ring,
\* times the square of the ring's length.
ScaledSquaredDistance(anchor, piece) ==
    LET n == Len(piece[1])
        dLat == n * anchor.lat - RingTotal(piece[1], 2)
        dLng == n * anchor.lng - RingTotal(piece[1], 1)
    IN  dLat * dLat + dLng * dLng

HasOuterRing(piece) == Len(piece) >= 1 /\ Len(piece[1]) >= 1

AnchorNamed(anchors, n) == CHOOSE a \in {anchors[i] : i \in 1..Len(anchors)} : a.name = n

\* C2: each piece of an archipelago MultiPolygon lies in exactly one output
\* sub-region, and no anchor is strictly nearer (in squared distance) to the
\* vertex mean of the piece's outer ring than the anchor of that sub-region.
PieceGoesToNearestAnchor ==
    (splitPc = "returned" /\ ArchipelagoMultiPolygon /\ Len(InputPieces) > 0) =>
        /\ SumOver(PiecesOf, splitResult, Len(splitResult)) = Len(InputPieces)
        /\ \A i \in 1..Len(splitResult) :
              \A k \in 1..PiecesOf(splitResult[i]) :
                LET piece == splitResult[i].geometry.coordinates[k]
                    chosen == AnchorNamed(InputAnchors, getFeatureLabel(splitResult[i]))
                IN  HasOuterRing(piece) =>
                        \A j \in 1..Len(InputAnchors) :
                            ScaledSquaredDistance(chosen, piece)
                                <= ScaledSquaredDistance(InputAnchors[j], piece)

\* Pieces near different anchors were split apart, one of them with a mean
\* that is no whole number and one halfway between two anchors.
PieceGoesToNearestAnchorWitness ==
    /\ splitPc = "returned"
    /\ ArchipelagoMultiPolygon
    /\ \E k \in 1..Len(InputPieces) : InputPieces[k] = PieceMenorcaWithHole
    /\ \E k \in 1..Len(InputPieces) : InputPieces[k] = PieceBetweenIbizaAndFormentera
    /\ \E k \in 1..Len(InputPieces) : InputPieces[k] = PieceFormentera
    /\ Len(splitResult) = 3

\* The anchor the code assigned the piece to.
AssignedName(piece) == nearestAnchor(polygonCentroid(piece), InputAnchors).name

AnchorsWithPieces ==
    {n \in AnchorNames(InputAnchors) :
        \E k \in 1..Len(InputPieces) : AssignedName(InputPieces[k]) = n}

\* C3: the split returns as many regions as anchors received a piece for an
\* archipelago MultiPolygon, and exactly one region for every other feature.
SplitCountMatchesAnchors ==
    splitPc # "call" =>
        /\ splitPc = "returned"
        /\ Len(splitResult) =
              IF ArchipelagoMultiPolygon THEN Cardinality(AnchorsWithPieces) ELSE 1

\* C4: every sub-region emitted by the split resolves to the province's raw
\* name, is labelled with its anchor's name, and is a MultiPolygon of exactly
\* the pieces assigned to that anchor, in input order; no two sub-regions
\* share an anchor.
SubRegionsLabelled ==
    (splitPc = "returned" /\ ArchipelagoMultiPolygon /\ Len(InputPieces) > 0) =>
        /\ \A i \in 1..Len(splitResult) :
              LET r == splitResult[i]
                  IsMine(piece) == AssignedName(piece) = getFeatureLabel(r)
              IN  /\ getProvinceName(r) = getRawProvinceName(feature)
                  /\ getRawProvinceName(r) = getRawProvinceName(feature)
                  /\ getFeatureLabel(r) \in AnchorNames(InputAnchors)
                  /\ r.geometry.type = "MultiPolygon"
                  /\ r.geometry.coordinates = SelectSeq(InputPieces, IsMine)
                  /\ Len(r.geometry.coordinates) > 0
        /\ \A i, j \in 1..Len(splitResult) :
              i # j => getFeatureLabel(splitResult[i]) # getFeatureLabel(splitResult[j])

\* Four Balearic sub-regions from a feature that came with labels of its own.
SubRegionsLabelledWitness ==
    /\ splitPc = "returned"
    /\ ArchipelagoMultiPolygon
    /\ Len(splitResult) = 4
    /\ getFeatureLabel(feature) = "Centro"
    /\ getFeatureLabel(splitResult[4]) = "Formentera"

\* C5: a feature whose raw name is not listed in the anchor table, or whose
\* geometry is not a MultiPolygon, comes back as the one-element array
\* holding the feature itself.
PassThroughIsIdentity ==
    (splitPc # "call" /\ ~ArchipelagoMultiPolygon) =>
        /\ splitPc = "returned"
        /\ splitResult = <<feature>>

\* C6: a call that returns never returns an empty array, and an archipelago
\* MultiPolygon none of whose anchors received a piece comes back as the
\* original feature alone.
SplitNeverEmpty ==
    splitPc = "returned" =>
        /\ Len(splitResult) >= 1
        /\ (ArchipelagoMultiPolygon /\ AnchorsWithPieces = {}) =>
                splitResult = <<feature>>

\* An archipelago MultiPolygon with no piece went through the split.
SplitNeverEmptyWitness ==
    /\ splitPc = "returned"
    /\ ArchipelagoMultiPolygon
    /\ Len(InputPieces) = 0
    /\ splitResult = <<feature>>

HoldsString(f, key) == ~f.properties.isNull /\ f.properties.bag[key].type = "string"

NoNameKeyHoldsString(f) ==
    ~HoldsString(f, "name") /\ ~HoldsString(f, "NAME") /\ ~HoldsString(f, "provincia")

\* C7 as amended: the raw name is the string under the first of name, NAME,
\* provincia that holds a string (the empty string included), and the
\* literal "Desconocida" when none does; the call never fails on the way.
RawNameResolution ==
    splitPc # "call" =>
        provinceName =
            IF HoldsString(feature, "name") THEN feature.properties.bag["name"].str
            ELSE IF HoldsString(feature, "NAME") THEN feature.properties.bag["NAME"].str
            ELSE IF HoldsString(feature, "provincia")
                 THEN feature.properties.bag["provincia"].str
            ELSE "Desconocida"

\* Non-string values under name and NAME were skipped for provincia.
RawNameResolutionWitness ==
    /\ splitPc = "returned"
    /\ ~feature.properties.isNull
    /\ feature.properties.bag["name"] = NumberValue
    /\ feature.properties.bag["NAME"] = NumberValue
    /\ feature.properties.bag["provincia"] = Str("Madrid")
    /\ provinceName = "Madrid"

\* C7 as stated: when no name key holds a string the raw name is "unknown".
RawNameFallbackIsUnknown ==
    (splitPc # "call" /\ NoNameKeyHoldsString(feature)) => provinceName = "unknown"

(***************************************************************************)
(* splitArchipelagos and the measurements of a region                      *)
(***************************************************************************)
RECURSIVE FlatMapSplit(_, _)
\* data.features.flatMap(splitIslandFeature) over the first k features; the
\* first call that throws ends the whole flatMap.
FlatMapSplit(features, k) ==
    IF k = 0
    THEN Returned(<<>>)
    ELSE LET before == FlatMapSplit(features, k - 1)
             this == splitIslandFeature(features[k])
         IN  IF before.threw \/ this.threw
             THEN ThrewTypeError
             ELSE Returned(before.value \o this.value)

\* The features of splitArchipelagos(data)
splitArchipelagos(d) == FlatMapSplit(d.features, Len(d.features))

\* The collection given to splitArchipelagos as the call leaves it: flatMap
\* hands the features to splitIslandFeature one by one until one throws, and
\* the spread of line 573 copies.
SourceAfterSplit(d) ==
    [features |->
        [k \in 1..Len(d.features) |->
            IF FlatMapSplit(d.features, k - 1).threw
            THEN d.features[k]
            ELSE FeatureAfterSplit(d.features[k])]]

\* The positions Leaflet turns into the layers of L.geoJSON(feature).
RingsOf(f) ==
    LET c == f.geometry.coordinates
    IN  IF f.geometry.type = "MultiPolygon"
        THEN UNION {{c[p][r] : r \in 1..Len(c[p])} : p \in 1..Len(c)}
        ELSE {c[r] : r \in 1..Len(c)}

AllPositions(f) == UNION {{ring[v] : v \in 1..Len(ring)} : ring \in RingsOf(f)}

Least(S) == CHOOSE x \in S : \A y \in S : x <= y
Greatest(S) == CHOOSE x \in S : \A y \in S : x >= y
Abs(x) == IF x < 0 THEN -x ELSE x

\* The bounds of the outer rings alone.
BoundsOuterRings(f) ==
    LET c == f.geometry.coordinates
        outer == IF f.geometry.type = "MultiPolygon"
                 THEN UNION {{c[p][1][v] : v \in 1..Len(c[p][1])} : p \in 1..Len(c)}
                 ELSE {c[1][v] : v \in 1..Len(c[1])}
    IN  [south |-> Least({pos[2] : pos \in outer}),
         north |-> Greatest({pos[2] : pos \in outer}),
         west |-> Least({pos[1] : pos \in outer}),
         east |-> Greatest({pos[1] : pos \in outer})]

\* L.geoJSON(feature).getBounds()
Bounds(f) ==
    LET lats == {pos[2] : pos \in AllPositions(f)}
        lngs == {pos[1] : pos \in AllPositions(f)}
    IN  [south |-> Least(lats), north |-> Greatest(lats),
         west |-> Least(lngs), east |-> Greatest(lngs)]

\* The centre of the bounds, kept as twice its latitude and longitude.
featureCentroid(f) ==
    [lat2 |-> Bounds(f).south + Bounds(f).north,
     lng2 |-> Bounds(f).west + Bounds(f).east]

featureAreaScore(f) ==
    Abs(Bounds(f).north - Bounds(f).south) * Abs(Bounds(f).east - Bounds(f).west)

\* The test of line 649 with >= for >.
ReplacesCurrentOnTie(map, name, score) ==
    name \notin DOMAIN map \/ score >= map[name].score

\* !current || score > current.score
ReplacesCurrent(map, name, score) ==
    name \notin DOMAIN map \/ score > map[name].score

\* map.set(name, value)
MapSet(map, name, value) ==
    [n \in DOMAIN map \cup {name} |-> IF n = name THEN value ELSE map[n]]

RECURSIVE CentroidMapAfter(_, _)
\* The local Map of lines 643-652 after the first k features.
CentroidMapAfter(features, k) ==
    IF k = 0
    THEN EmptyMap
    ELSE LET map == CentroidMapAfter(features, k - 1)
             name == getProvinceName(features[k])
             center == featureCentroid(features[k])
             score == featureAreaScore(features[k])
         IN  IF ReplacesCurrent(map, name, score)
             THEN MapSet(map, name, [center |-> center, score |-> score])
             ELSE map

\* The value of the useMemo of lines 641-659 for the state g of geoData.
ProvinceCentroidsOf(g) ==
    IF g.isNull
    THEN EmptyMap
    ELSE LET map == CentroidMapAfter(g.features, Len(g.features))
         IN  [n \in DOMAIN map |-> map[n].center]

(***************************************************************************)
(* Collections the fetch may deliver                                       *)
(***************************************************************************)
NamedPolygon(name, ring) ==
    [properties |-> Properties([name |-> Str(name)]), geometry |-> PolygonOf(<<ring>>)]

\* Bounding boxes of 2 x 5, 4 x 5 and 5 x 4 hundredths of a degree: scores
\* 10, 20 and 20.
MadridSmall == NamedPolygon("Madrid", << <<-370, 4040>>, <<-365, 4042>>, <<-368, 4041>> >>)
MadridLarge == NamedPolygon("Madrid", << <<-380, 4050>>, <<-375, 4054>> >>)
MadridLargeToo == NamedPolygon("Madrid", << <<-390, 4060>>, <<-386, 4065>> >>)
ToledoPoint == NamedPolygon("Toledo", << <<-402, 3986>> >>)
Balears ==
    [properties |-> Properties([name |-> Str("Illes Balears")]),
     geometry |-> MultiPolygonOf(<<PieceIbiza, PieceMallorca>>)]
Constructor ==
    [properties |-> Properties([name |-> Str("constructor")]),
     geometry |-> MultiPolygonOf(<<PieceMallorca>>)]

\* Two pieces of score 4 each, the one off Formentera ahead of the one off
\* Ibiza.
PieceFormenteraWide == << << <<144, 3868>>, <<146, 3870>> >> >>
BalearsTied ==
    [properties |-> Properties([name |-> Str("Illes Balears")]),
     geometry |-> MultiPolygonOf(<<PieceFormenteraWide, PieceIbiza>>)]

CollectionInputs ==
    {[features |-> fs] :
        fs \in SeqsUpTo({MadridSmall, MadridLarge, MadridLargeToo, ToledoPoint,
                         Balears, BalearsTied, Constructor}, MaxFeatures)}

SplitIdle ==
    /\ feature = ToledoPoint
    /\ provinceName = ""
    /\ splitResult = NoResult
    /\ splitPc = "idle"
    /\ measurement = NotMeasured

(***************************************************************************)
(* Properties of the centroid table (checked under SpecLoad)               *)
(***************************************************************************)
Loaded == fetchPc = "settled" /\ ~geoData.isNull

RegionsNamed(n) ==
    {i \in 1..Len(geoData.features) : getProvinceName(geoData.features[i]) = n}

\* The first of the regions named n whose score no region named n exceeds.
FirstLargest(n) ==
    CHOOSE i \in RegionsNamed(n) :
        /\ \A j \in RegionsNamed(n) :
              featureAreaScore(geoData.features[j]) <= featureAreaScore(geoData.features[i])
        /\ \A j \in RegionsNamed(n) :
              j < i => featureAreaScore(geoData.features[j])
                          < featureAreaScore(geoData.features[i])

\* C8: the centroid table holds exactly the resolved names of the regions,
\* and under each name the centre of the region of that name with the
\* greatest score, the first-seen one among equals.
CentroidOfLargestRegion ==
    Loaded =>
        /\ DOMAIN provinceCentroids =
              {getProvinceName(geoData.features[i]) : i \in 1..Len(geoData.features)}
        /\ \A n \in DOMAIN provinceCentroids :
              provinceCentroids[n] = featureCentroid(geoData.features[FirstLargest(n)])

\* Regions named Madrid with scores 10, 20 and 20 again, the smallest first:
\* the centre kept is that of the first region of score 20.
CentroidOfLargestRegionWitness ==
    /\ Loaded
    /\ geoData.features = <<MadridSmall, MadridLarge, MadridLargeToo>>
    /\ featureAreaScore(MadridSmall) = 10
    /\ featureAreaScore(MadridLarge) = 20
    /\ featureAreaScore(MadridLargeToo) = 20
    /\ provinceCentroids["Madrid"] = [lat2 |-> 8104, lng2 |-> -755]

(***************************************************************************)
(* The rendered map: styles, hover and selection                           *)
(***************************************************************************)
OptionKeys == {"fillColor", "weight", "opacity", "color", "fillOpacity"}

DEFAULT_STYLE ==
    [fillColor |-> "#2f3336", weight |-> "1", opacity |-> "1",
     color |-> "#536471", fillOpacity |-> "0.7"]
HOVER_STYLE ==
    [fillColor |-> "#1d9bf0", fillOpacity |-> "0.45", weight |-> "2",
     color |-> "#1d9bf0"]
SELECTED_STYLE ==
    [fillColor |-> "#1d9bf0", fillOpacity |-> "0.75", weight |-> "2.5",
     color |-> "#8ecdf7"]
OCCUPIED_STYLE ==
    [fillColor |-> "#00ba7c", fillOpacity |-> "0.4", weight |-> "1",
     opacity |-> "1", color |-> "#00ba7c"]

\* The options of a Leaflet path that was given no style.
PathDefaults ==
    [fillColor |-> "null", weight |-> "3", opacity |-> "1",
     color |-> "#3388ff", fillOpacity |-> "0.2"]

\* path.setStyle(style): the options named by style are overwritten, the
\* others stay.
SetStyle(options, style) ==
    [k \in OptionKeys |-> IF k \in DOMAIN style THEN style[k] ELSE options[k]]

\* Every option the style names has the style's value.
Carries(options, style) == \A k \in DOMAIN style : options[k] = style[k]

\* A profile row with the name of its province (or none)
Profile(id, province) == [id |-> id, provincias |-> province]

\* p.provincias?.nombre tested for null and undefined only.
HasProvinceNullOnly(profile) == ~profile.provincias.isNull

\* p.provincias?.nombre of lines 625-626: a missing province and an empty
\* name are both skipped.
HasProvince(profile) == ~profile.provincias.isNull /\ profile.provincias.str # ""

RECURSIVE GroupedAfter(_, _)
\* The Map of lines 623-630 once the loop has taken the first k profiles:
\* its keys in the order they were set, and the array under each key.
GroupedAfter(ps, k) ==
    IF k = 0
    THEN [keys |-> <<>>, get |-> EmptyMap]
    ELSE LET map == GroupedAfter(ps, k - 1)
             p == ps[k]
             provName == p.provincias.str
             arr == IF provName \in DOMAIN map.get THEN map.get[provName] ELSE <<>>
         IN  IF ~HasProvince(p)
             THEN map
             ELSE [keys |-> IF provName \in DOMAIN map.get
                            THEN map.keys
                            ELSE Append(map.keys, provName),
                   get |-> MapSet(map.get, provName, Append(arr, p))]

\* The Map of lines 622-632, as the function from its keys to their arrays.
profilesByProvince(ps) == GroupedAfter(ps, Len(ps)).get

\* The order in which a for-of loop visits the keys of that Map.
ProvinceKeys(ps) == GroupedAfter(ps, Len(ps)).keys

\* new Set(profilesByProvince.keys()), lines 635-638
occupiedProvinces(ps) == DOMAIN profilesByProvince(ps)

(***************************************************************************)
(* The avatar markers                                                      *)
(*                                                                         *)
(* Math.cos and Math.sin are not evaluated.  A position is kept as the     *)
(* centre (doubled, in hundredths of a degree), the radius in thousandths  *)
(* of a degree and the angle as the fraction num/den of a turn; lines      *)
(* 680-681 add radius * cos(angle) to the latitude and radius * sin(angle) *)
(* to the longitude.                                                       *)
(***************************************************************************)
Min(a, b) == IF a < b THEN a ELSE b

\* The offset applied to every marker, a lone one included.
IsSpreadAlways(count) == TRUE

\* count > 1, line 677
IsSpread(count) == count > 1

\* The radius without its cap.
MarkerRadiusUncapped(count) == 150 + count * 20

\* Math.min(0.15 + count * 0.02, 0.5), line 679
MarkerRadius(count) == Min(150 + count * 20, 500)

\* (2 * Math.PI * i) / count, line 678
MarkerAngle(i, count) == [num |-> i, den |-> count]

\* Math.cos and Math.sin of q quarter turns, where they are whole numbers.
CosQuarterTurns(q) == <<1, 0, -1, 0>>[(q % 4) + 1]
SinQuarterTurns(q) == <<0, 1, 0, -1>>[(q % 4) + 1]

\* Math.cos(angle) * radius and Math.sin(angle) * radius of lines 680-681
\* for a position whose angle is a whole number of quarter turns.
QuarterTurnOffset(position) ==
    LET q == (4 * position.angle.num) \div position.angle.den
    IN  [lat |-> CosQuarterTurns(q) * position.radius,
         lng |-> SinQuarterTurns(q) * position.radius]

\* lat and lng of lines 675-682 for the profile of index i (from 0) among
\* count; a radius of 0 is the centre itself.
MarkerPosition(center, i, count) ==
    IF IsSpread(count)
    THEN [center |-> center, radius |-> MarkerRadius(count),
          angle |-> MarkerAngle(i, count)]
    ELSE [center |-> center, radius |-> 0, angle |-> MarkerAngle(0, 1)]

\* The markers the forEach of lines 674-690 pushes for one province.
ProvinceMarkers(center, provProfiles) ==
    [k \in 1..Len(provProfiles) |->
        [key |-> provProfiles[k].id,
         position |-> MarkerPosition(center, k - 1, Len(provProfiles)),
         profile |-> provProfiles[k]]]

RECURSIVE MarkersAfter(_, _, _, _)
\* The array markers once the loop of lines 668-691 has taken the first k
\* keys of profilesByProvince.
MarkersAfter(keys, byProvince, centroids, k) ==
    IF k = 0
    THEN <<>>
    ELSE LET before == MarkersAfter(keys, byProvince, centroids, k - 1)
             provName == keys[k]
         IN  IF provName \notin DOMAIN centroids
             THEN before
             ELSE before \o ProvinceMarkers(centroids[provName], byProvince[provName])

\* The value of the useMemo of lines 662-693
AvatarMarkersOf(ps, centroids) ==
    MarkersAfter(ProvinceKeys(ps), profilesByProvince(ps), centroids,
                 Len(ProvinceKeys(ps)))

\* The style function with the occupied test ahead of the selected test.
styleFeatureOccupiedFirst(f, selected, occupied) ==
    LET name == getProvinceName(f)
    IN  IF name \in occupied THEN OCCUPIED_STYLE
        ELSE IF Province(name) = selected THEN SELECTED_STYLE
        ELSE DEFAULT_STYLE

\* styleFeature for a feature of the collection (never undefined there)
styleFeature(f, selected, occupied) ==
    LET name == getProvinceName(f)
    IN  IF Province(name) = selected THEN SELECTED_STYLE
        ELSE IF name \in occupied THEN OCCUPIED_STYLE
        ELSE DEFAULT_STYLE

\* The key of the GeoJSON element
GeoJsonKey(selected, ps, open) ==
    <<IF selected.isNull THEN "none" ELSE selected.str,
      Cardinality(occupiedProvinces(ps)), open>>

\* The layers react-leaflet creates when the GeoJSON element mounts: one per
\* feature, styled by styleFeature.
MountedLayers(g, selected, ps) ==
    [l \in 1..Len(g.features) |->
        SetStyle(PathDefaults, styleFeature(g.features[l], selected, occupiedProvinces(ps)))]

Layers == 1..Len(geoData.features)
\* The label of the region in place of the name of its province.
LayerProvinceIsLabel(l) == getFeatureLabel(geoData.features[l])
LayerProvince(l) == getProvinceName(geoData.features[l])
LayerLabel(l) == getFeatureLabel(geoData.features[l])
Occupied == occupiedProvinces(profiles)

\* OCCUPIED_STYLE or DEFAULT_STYLE, as lines 718 and 736-740 choose it
RestingStyle(name) == IF name \in Occupied THEN OCCUPIED_STYLE ELSE DEFAULT_STYLE

\* The three tests against the selected province, each with a variant that
\* drops it.
PrevMayBeResetAlways(prevProvince) == TRUE
\* prevProvince !== selectedProvince, line 716
PrevMayBeReset(prevProvince) == Province(prevProvince) # selectedProvince

EnterMayStyleAlways(name) == TRUE
\* provinceName !== selectedProvince, line 725
EnterMayStyle(name) == Province(name) # selectedProvince

LeaveMayStyleAlways(name) == TRUE
\* provinceName !== selectedProvince, line 735
LeaveMayStyle(name) == Province(name) # selectedProvince

\* The test of line 714 taken as never passing.
IsOtherLayerNever(prev, l) == FALSE

\* prev.layer !== layer
IsOtherLayer(prev, l) == ~(prev.mounted /\ prev.layer = l)

(***************************************************************************)
(* Loading the map                                                         *)
(***************************************************************************)
\* if (error) of line 766: null and the empty string are falsy.
ErrorShown(err) == ~err.isNull /\ err.message # ""

\* The returns of lines 766-786 with the test of geoData ahead of the test
\* of error.
RenderedViewDataFirst(err, g) ==
    IF g.isNull THEN "loading"
    ELSE IF ErrorShown(err) THEN "error"
    ELSE "map"

\* What the component returns: the error card (766-776), the loading card
\* (778-786), or the map.
RenderedView(err, g) ==
    IF ErrorShown(err) THEN "error"
    ELSE IF g.isNull THEN "loading"
    ELSE "map"

View == RenderedView(error, geoData)

\* The props the page is rendered with while it loads.
LoadSelectedInputs == {NoProvince, Province("Illes Balears")}
LoadProfileInputs == {<<>>, <<Profile("u1", Province("Illes Balears"))>>}

\* The component as first rendered, its effects not yet run.
InitLoad ==
    /\ data \in CollectionInputs
    /\ fetchPc = "mounted"
    /\ fetchCount = 0
    /\ geoData = NoGeoData
    /\ error = NoError
    /\ provinceCentroids = ProvinceCentroidsOf(NoGeoData)
    /\ selectedProvince \in LoadSelectedInputs
    /\ profiles \in LoadProfileInputs
    /\ dialogOpen = FALSE
    /\ layerOptions = MountedLayers(NoGeoData, selectedProvince, profiles)
    /\ prevHoveredRef = NoLayer
    /\ hovered = NoHovered
    /\ mouseoverBranch = "none"
    /\ selectCalls = <<>>
    /\ SplitIdle
    /\ MarkersIdle
    /\ PageIdle

\* The effect of lines 695-703, which has no dependency and so runs after
\* the first render only: it calls fetch.
FetchEffect ==
    /\ fetchPc = "mounted"
    /\ fetchPc' = "pending"
    /\ fetchCount' = fetchCount + 1
    /\ UNCHANGED <<data, geoData, error, provinceCentroids>>
    /\ UNCHANGED <<splitVars, propVars, mapVars, avatarMarkers, pageVars>>

\* The fetch delivered an ok response whose body parsed to data: the second
\* then of line 701, or the catch of line 702 when the split throws, and
\* the render that follows, which mounts one layer per region.
FetchResolved ==
    /\ fetchPc = "pending"
    /\ fetchPc' = "settled"
    /\ LET r == splitArchipelagos(data)
       IN  IF r.threw
           THEN /\ error' = Error("anchors.forEach is not a function")
                /\ UNCHANGED geoData
           ELSE /\ geoData' = GeoData(r.value)
                /\ UNCHANGED error
    /\ data' = SourceAfterSplit(data)
    /\ provinceCentroids' = ProvinceCentroidsOf(geoData')
    /\ layerOptions' = MountedLayers(geoData', selectedProvince, profiles)
    /\ UNCHANGED <<fetchCount, prevHoveredRef, hovered, mouseoverBranch, selectCalls>>
    /\ UNCHANGED <<splitVars, propVars, avatarMarkers, pageVars>>

\* The fetch rejected, the response was not ok, or its body did not parse.
FetchFailed ==
    /\ fetchPc = "pending"
    /\ fetchPc' = "settled"
    /\ \E message \in {"Failed to fetch", "Error cargando GeoJSON", "Unexpected token"} :
          error' = Error(message)
    /\ provinceCentroids' = ProvinceCentroidsOf(geoData)
    /\ UNCHANGED <<data, fetchCount, geoData>>
    /\ UNCHANGED <<splitVars, propVars, mapVars, avatarMarkers, pageVars>>

\* mouseover on the layer l (lines 711-729); bringToFront changes the
\* drawing order only and no option of the path.
MouseOver(l) ==
    LET prev == prevHoveredRef
        reset == /\ ~prev.isNull
                 /\ IsOtherLayer(prev, l)
                 /\ PrevMayBeReset(prev.province)
                 /\ prev.mounted
        afterReset ==
            IF reset
            THEN [layerOptions EXCEPT
                     ![prev.layer] = SetStyle(@, RestingStyle(prev.province))]
            ELSE layerOptions
    IN  /\ prevHoveredRef' =
              [isNull |-> FALSE, layer |-> l, province |-> LayerProvince(l),
               mounted |-> TRUE]
        /\ hovered' =
              [isNull |-> FALSE, label |-> LayerLabel(l), province |-> LayerProvince(l)]
        /\ layerOptions' =
              IF EnterMayStyle(LayerProvince(l))
              THEN [afterReset EXCEPT ![l] = SetStyle(@, HOVER_STYLE)]
              ELSE afterReset
        /\ mouseoverBranch' =
              IF prev.isNull \/ ~IsOtherLayer(prev, l) \/ ~prev.mounted THEN "other"
              ELSE IF PrevMayBeReset(prev.province) THEN "reset"
              ELSE "kept"
        /\ UNCHANGED selectCalls
        /\ UNCHANGED <<splitVars, loadVars, propVars, avatarMarkers, pageVars>>

\* mouseout on the layer l (lines 730-742)
MouseOut(l) ==
    /\ prevHoveredRef' =
          IF ~prevHoveredRef.isNull /\ ~IsOtherLayer(prevHoveredRef, l)
          THEN NoLayer
          ELSE prevHoveredRef
    /\ hovered' = NoHovered
    /\ layerOptions' =
          IF LeaveMayStyle(LayerProvince(l))
          THEN [layerOptions EXCEPT ![l] = SetStyle(@, RestingStyle(LayerProvince(l)))]
          ELSE layerOptions
    /\ mouseoverBranch' = "none"
    /\ UNCHANGED selectCalls
    /\ UNCHANGED <<splitVars, loadVars, propVars, avatarMarkers, pageVars>>

\* click on the layer l (lines 743-745)
Click(l) ==
    /\ Len(selectCalls) < MaxCalls
    /\ selectCalls' = Append(selectCalls, LayerProvince(l))
    /\ mouseoverBranch' = "none"
    /\ UNCHANGED <<layerOptions, prevHoveredRef, hovered>>
    /\ UNCHANGED <<splitVars, loadVars, propVars, avatarMarkers, pageVars>>

Madrid == NamedPolygon("Madrid", << <<-370, 4040>>, <<-365, 4042>>, <<-368, 4041>> >>)
Toledo == NamedPolygon("Toledo", << <<-402, 3986>>, <<-400, 3990>> >>)
Sevilla == NamedPolygon("Sevilla", << <<-598, 3738>>, <<-590, 3740>> >>)
IllesBalears ==
    [properties |-> Properties([name |-> Str("Illes Balears")]),
     geometry |-> MultiPolygonOf(<<PieceMallorca, PieceMenorcaWithHole>>)]

\* The collection behind the rendered map: four provinces, five regions.
MapData == [features |-> <<Madrid, Toledo, IllesBalears, Sevilla>>]

ProfileInputs ==
    { <<>>,
      <<Profile("u1", Province("Madrid")), Profile("u2", Province("Illes Balears")),
        Profile("u3", NoProvince)>>,
      <<Profile("u1", Province("Madrid")), Profile("u2", Province("Sevilla"))>>,
      <<Profile("u1", Province("Toledo")), Profile("u2", Province("Toledo")),
        Profile("u3", Province(""))>> }

SelectedInputs ==
    {NoProvince} \cup {Province(n) : n \in {"Madrid", "Toledo", "Illes Balears"}}

\* The map as first rendered once MapData has been fetched and split.
Init ==
    /\ data = MapData
    /\ fetchPc = "settled"
    /\ fetchCount = 1
    /\ geoData = GeoData(splitArchipelagos(MapData).value)
    /\ error = NoError
    /\ provinceCentroids = ProvinceCentroidsOf(geoData)
    /\ selectedProvince \in SelectedInputs
    /\ profiles \in ProfileInputs
    /\ dialogOpen = FALSE
    /\ layerOptions = MountedLayers(geoData, selectedProvince, profiles)
    /\ prevHoveredRef = NoLayer
    /\ hovered = NoHovered
    /\ mouseoverBranch = "none"
    /\ selectCalls = <<>>
    /\ SplitIdle
    /\ MarkersIdle
    /\ PageIdle

\* The parent renders the map with props that change the key of the GeoJSON
\* element: the layers are discarded and created anew with the new props,
\* while hovered and prevHoveredRef live on, the latter now referring to a
\* layer that is no longer rendered.  A render that keeps the key leaves the
\* layers and their handlers in place; what react-leaflet does with the new
\* style function then is decided outside this repository and is left out.
Remount(selected, ps, open) ==
    /\ GeoJsonKey(selected, ps, open) # GeoJsonKey(selectedProvince, profiles, dialogOpen)
    /\ selectedProvince' = selected
    /\ profiles' = ps
    /\ dialogOpen' = open
    /\ layerOptions' = MountedLayers(geoData, selected, ps)
    /\ prevHoveredRef' = [prevHoveredRef EXCEPT !.mounted = FALSE]
    /\ mouseoverBranch' = "none"
    /\ UNCHANGED <<hovered, selectCalls>>
    /\ UNCHANGED <<splitVars, loadVars, avatarMarkers, pageVars>>

\* Loading, with the renders the parent causes meanwhile.
NextLoad ==
    \/ FetchEffect
    \/ FetchResolved
    \/ FetchFailed
    \/ \E selected \in LoadSelectedInputs, ps \in LoadProfileInputs :
          Remount(selected, ps, FALSE)

SpecLoad == InitLoad /\ [][NextLoad]_vars

Next ==
    \/ \E l \in Layers : MouseOver(l)
    \/ \E l \in Layers : MouseOut(l)
    \/ \E l \in Layers : Click(l)
    \/ \E selected \in SelectedInputs, ps \in ProfileInputs, open \in BOOLEAN :
          Remount(selected, ps, open)

Spec == Init /\ [][Next]_vars

(***************************************************************************)
(* The measurements of one region                                          *)
(***************************************************************************)
\* A piece west of Greenwich and south of the others.
PieceTenerife == << << <<-1650, 2830>>, <<-1660, 2820>>, <<-1655, 2845>> >> >>

\* Pieces whose rings all hold positions of two numbers.
MeasuredPieces ==
    {PieceMallorca, PieceMenorcaWithHole, PieceIbiza, PieceFormentera,
     PieceBetweenIbizaAndFormentera, PieceFormenteraWide, PieceTenerife}

\* Regions of one to MaxPieces pieces, and regions of a single polygon.
MeasureInputs ==
    {[properties |-> Properties([name |-> Str("Illes Balears")]),
      geometry |-> MultiPolygonOf(c)] :
        c \in SeqsUpTo(MeasuredPieces, MaxPieces) \ {<<>>}}
      \cup {[properties |-> Properties([name |-> Str("Madrid")]),
              geometry |-> PolygonOf(c)] : c \in MeasuredPieces}

InitMeasure ==
    /\ feature \in MeasureInputs
    /\ provinceName = ""
    /\ splitResult = NoResult
    /\ splitPc = "idle"
    /\ measurement = NotMeasured
    /\ LoadIdle
    /\ MapIdle
    /\ MarkersIdle
    /\ PageIdle

\* featureCentroid(feature) and featureAreaScore(feature), as lines 645-646
\* call them for one region.
Measure ==
    /\ ~measurement.measured
    /\ measurement' = [measured |-> TRUE,
                       center |-> featureCentroid(feature),
                       score |-> featureAreaScore(feature)]
    /\ UNCHANGED <<feature, provinceName, splitResult, splitPc>>
    /\ UNCHANGED <<loadVars, propVars, mapVars, avatarMarkers, pageVars>>

NextMeasure == Measure

SpecMeasure == InitMeasure /\ [][NextMeasure]_vars

(***************************************************************************)
(* The markers of one list of profiles                                     *)
(***************************************************************************)
\* Largest number of profiles of a mixed list.
MaxProfiles == 4
\* Largest number of profiles that share one province.
MaxCrowd == 19

\* Profiles of three provinces of the map, of a province the map does not
\* have, and of no province.
ProfilePool ==
    {Profile("a", Province("Madrid")), Profile("b", Province("Madrid")),
     Profile("c", Province("Toledo")), Profile("d", Province("Illes Balears")),
     Profile("e", Province("Atlantis")), Profile("f", NoProvince),
     Profile("g", Province(""))}

\* n profiles of Madrid
Crowd(n) == [k \in 1..n |-> Profile(ToString(k), Province("Madrid"))]

MarkerProfileInputs ==
    SeqsUpTo(ProfilePool, MaxProfiles) \cup {Crowd(n) : n \in 1..MaxCrowd}

\* The map of MapData rendered with some list of profiles.
InitMarkers ==
    /\ data = MapData
    /\ fetchPc = "settled"
    /\ fetchCount = 1
    /\ geoData = GeoData(splitArchipelagos(MapData).value)
    /\ error = NoError
    /\ provinceCentroids = ProvinceCentroidsOf(geoData)
    /\ selectedProvince = NoProvince
    /\ profiles \in MarkerProfileInputs
    /\ dialogOpen = FALSE
    /\ layerOptions = MountedLayers(geoData, selectedProvince, profiles)
    /\ prevHoveredRef = NoLayer
    /\ hovered = NoHovered
    /\ mouseoverBranch = "none"
    /\ selectCalls = <<>>
    /\ avatarMarkers = NotComputed
    /\ PageIdle
    /\ SplitIdle

\* The useMemo of lines 662-693 computes its value.
AvatarMarkers ==
    /\ ~avatarMarkers.computed
    /\ avatarMarkers' =
          [computed |-> TRUE, markers |-> AvatarMarkersOf(profiles, provinceCentroids)]
    /\ UNCHANGED <<splitVars, loadVars, propVars, mapVars, pageVars>>

NextMarkers == AvatarMarkers

SpecMarkers == InitMarkers /\ [][NextMarkers]_vars

(***************************************************************************)
(* Properties of the rendered map (checked under Spec)                     *)
(***************************************************************************)
\* The pointer has entered the layer l and has not been seen leaving it.
PointerOn(l) ==
    ~prevHoveredRef.isNull /\ prevHoveredRef.mounted /\ prevHoveredRef.layer = l

LayerOf(label) == CHOOSE l \in Layers : LayerLabel(l) = label

SelectedKeepsStyle ==
    \A l \in Layers :
        Province(LayerProvince(l)) = selectedProvince =>
            Carries(layerOptions[l], SELECTED_STYLE)

\* Both Balearic regions are selected; the pointer entered Menorca and the
\* mouseout of some other layer was handled afterwards (hovered is null
\* while the ref still names Menorca).
SelectedKeepsStyleWitness ==
    /\ selectedProvince = Province("Illes Balears")
    /\ PointerOn(LayerOf("Menorca"))
    /\ hovered = NoHovered
    /\ Carries(layerOptions[LayerOf("Mallorca")], SELECTED_STYLE)
    /\ Carries(layerOptions[LayerOf("Menorca")], SELECTED_STYLE)

SourcesOf(l) ==
    {k \in 1..Len(data.features) :
        \E i \in 1..Len(splitIslandFeature(data.features[k]).value) :
            splitIslandFeature(data.features[k]).value[i] = geoData.features[l]}

\* C12: a click on a rendered region calls onProvinceSelect once, with the
\* raw name of the feature of data the region was split from or, for a
\* region that was not split, with the name that feature resolves to, and
\* leaves hovered, prevHoveredRef, the styles of the layers and the
\* selection as they were.
ClickOnlyReportsProvince ==
    [][\A l \in Layers :
          Click(l) =>
              /\ \E k \in SourcesOf(l) :
                    selectCalls' =
                        Append(selectCalls,
                               IF geoData.features[l] = data.features[k]
                               THEN getProvinceName(data.features[k])
                               ELSE getRawProvinceName(data.features[k]))
              /\ UNCHANGED <<hovered, prevHoveredRef, layerOptions, selectedProvince>>]_vars

\* Menorca was clicked with the pointer on it: the one call names Illes
\* Balears, and the layer is still styled hovered.
ClickOnlyReportsProvinceWitness ==
    /\ selectCalls = <<"Illes Balears">>
    /\ mouseoverBranch = "none"
    /\ hovered = [isNull |-> FALSE, label |-> "Menorca", province |-> "Illes Balears"]
    /\ PointerOn(LayerOf("Menorca"))
    /\ selectedProvince = NoProvince
    /\ Carries(layerOptions[LayerOf("Menorca")], HOVER_STYLE)

(***************************************************************************)
(* Properties of loading (checked under SpecLoad)                          *)
(***************************************************************************)
\* C13: the view starts as the loading card with no fetch made; the effect
\* makes one fetch and no later step makes another; the view is the loading
\* card for as long as the fetch is pending; a fetch that fails, by the
\* network, by its status or by its body, leads to the error card; no step
\* leads from the error card to another view; and an error is shown whether
\* or not there is data.
LoadsOnceAndErrorIsTerminal ==
    /\ View = "loading" /\ fetchPc = "mounted" /\ fetchCount = 0
    /\ [](fetchPc # "mounted" => fetchCount = 1)
    /\ [](fetchPc = "pending" => View = "loading")
    /\ [][FetchFailed => View' = "error"]_vars
    /\ [][View = "error" => View' = "error" /\ fetchPc' = "settled"]_vars
    /\ [](~error.isNull =>
             \A g \in {geoData, GeoData(data.features)} : RenderedView(error, g) = "error")

\* The response had no success status, and the page has been rendered with
\* other props since: the error card is still what is shown.
LoadsOnceAndErrorIsTerminalWitness ==
    /\ fetchPc = "settled"
    /\ fetchCount = 1
    /\ error = Error("Error cargando GeoJSON")
    /\ geoData.isNull
    /\ View = "error"
    /\ selectedProvince = Province("Illes Balears")
    /\ profiles # <<>>

AnchorIndex(n, label) ==
    CHOOSE i \in 1..Len(ISLAND_SPLIT_ANCHORS[n]) : ISLAND_SPLIT_ANCHORS[n][i].name = label

\* The features of data split into several sub-regions whose raw name no
\* other feature of data resolves to.
SplitSources ==
    {k \in 1..Len(data.features) :
        /\ Len(splitIslandFeature(data.features[k]).value) > 1
        /\ \A j \in 1..Len(data.features) :
              j # k => getProvinceName(data.features[j])
                          # getRawProvinceName(data.features[k])}

\* C20: the sub-regions of a split archipelago province all resolve to the
\* name of the province; the centre kept for that name is the centre of the
\* bounds of the sub-region of greatest score, the first in the order of
\* the anchors among equals; and the layers of the sub-regions carry one
\* style, SELECTED_STYLE when the province is selected and otherwise
\* OCCUPIED_STYLE when it is occupied.
SubRegionsShareNameCentreAndStyle ==
    Loaded =>
        \A k \in SplitSources :
            LET n == getRawProvinceName(data.features[k])
                out == splitIslandFeature(data.features[k]).value
                Place(i) == AnchorIndex(n, getFeatureLabel(out[i]))
                mine == {l \in Layers : LayerProvince(l) = n}
            IN  /\ \A i \in 1..Len(out) : getProvinceName(out[i]) = n
                /\ Cardinality(mine) = Len(out)
                /\ \E i \in 1..Len(out) :
                      /\ provinceCentroids[n] = featureCentroid(out[i])
                      /\ \A j \in 1..Len(out) :
                            /\ featureAreaScore(out[j]) <= featureAreaScore(out[i])
                            /\ featureAreaScore(out[j]) = featureAreaScore(out[i])
                                  => Place(i) <= Place(j)
                /\ \A l \in mine :
                      /\ getFeatureLabel(geoData.features[l]) \in
                            {getFeatureLabel(out[i]) : i \in 1..Len(out)}
                      /\ \A l2 \in mine : layerOptions[l] = layerOptions[l2]
                      /\ Carries(layerOptions[l],
                            IF selectedProvince = Province(n) THEN SELECTED_STYLE
                            ELSE IF \E i \in 1..Len(profiles) :
                                       profiles[i].provincias = Province(n)
                                 THEN OCCUPIED_STYLE
                                 ELSE DEFAULT_STYLE)

\* Illes Balears with a piece off Formentera ahead of a piece off Ibiza, both
\* of score 4: the centre kept is that of the Ibiza sub-region, the earlier
\* anchor, and both layers are styled selected.
SubRegionsShareNameCentreAndStyleWitness ==
    /\ Loaded
    /\ data.features = <<MadridSmall, BalearsTied>>
    /\ getFeatureLabel(geoData.features[2]) = "Ibiza"
    /\ getFeatureLabel(geoData.features[3]) = "Formentera"
    /\ featureAreaScore(geoData.features[2]) = 4
    /\ featureAreaScore(geoData.features[3]) = 4
    /\ provinceCentroids["Illes Balears"] = [lat2 |-> 7798, lng2 |-> 284]
    /\ selectedProvince = Province("Illes Balears")
    /\ Carries(layerOptions[2], SELECTED_STYLE)
    /\ Carries(layerOptions[3], SELECTED_STYLE)
    /\ Carries(layerOptions[1], DEFAULT_STYLE)

(***************************************************************************)
(* A piece with no outer ring (checked under SpecSplit)                    *)
(***************************************************************************)
\* Squared distance from the anchor to the point (0, 0).
SquaredDistanceToOrigin(anchor) == anchor.lat * anchor.lat + anchor.lng * anchor.lng

\* C19: the split of an archipelago MultiPolygon returns whatever pieces it
\* is given; a piece with no outer ring or an empty one has the centroid
\* (0, 0), is in the output, and is only in the sub-region of the anchor
\* that is nearest to (0, 0).
RingLessPieceGoesToAnchorNearestOrigin ==
    ArchipelagoMultiPolygon =>
        /\ splitPc = "returned"
        /\ \A k \in 1..Len(InputPieces) :
              ~HasOuterRing(InputPieces[k]) =>
                  /\ polygonCentroid(InputPieces[k]).lat = 0
                  /\ polygonCentroid(InputPieces[k]).lng = 0
                  /\ \E i \in 1..Len(splitResult) :
                        Occurrences(splitResult[i].geometry.coordinates, InputPieces[k]) > 0
                  /\ \A i \in 1..Len(splitResult) :
                        Occurrences(splitResult[i].geometry.coordinates, InputPieces[k]) > 0
                            => \A j \in 1..Len(InputAnchors) :
                                  SquaredDistanceToOrigin(
                                      AnchorNamed(InputAnchors, getFeatureLabel(splitResult[i])))
                                    <= SquaredDistanceToOrigin(InputAnchors[j])

\* A piece with an empty outer ring, a piece off Mallorca and a piece with no
\* ring: the two ring-less pieces make up the Formentera sub-region.
RingLessPieceGoesToAnchorNearestOriginWitness ==
    /\ splitPc = "returned"
    /\ getRawProvinceName(feature) = "Illes Balears"
    /\ InputPieces = <<PieceEmptyRing, PieceMallorca, PieceNoRing>>
    /\ Len(splitResult) = 2
    /\ getFeatureLabel(splitResult[1]) = "Mallorca"
    /\ getFeatureLabel(splitResult[2]) = "Formentera"
    /\ splitResult[2].geometry.coordinates = <<PieceEmptyRing, PieceNoRing>>

(***************************************************************************)
(* Properties of the measurements (checked under SpecMeasure)              *)
(***************************************************************************)
\* Every position of every ring of every piece of the region.
Vertices(f) ==
    LET c == f.geometry.coordinates
        InRing(ring) == {ring[v] : v \in 1..Len(ring)}
        InPiece(piece) == UNION {InRing(piece[r]) : r \in 1..Len(piece)}
    IN  IF f.geometry.type = "MultiPolygon"
        THEN UNION {InPiece(c[p]) : p \in 1..Len(c)}
        ELSE InPiece(c)

\* C16: the centre measured for a region is the midpoint of the least and
\* the greatest latitude and of the least and the greatest longitude over
\* all its vertices (kept doubled), and the score is the latitude span times
\* the longitude span: never negative, and 0 when either span is 0.
MeasuredFromBoundingBox ==
    measurement.measured =>
        LET lats == {v[2] : v \in Vertices(feature)}
            lngs == {v[1] : v \in Vertices(feature)}
            IsLeast(S, m) == \A x \in S : m <= x
            IsGreatest(S, m) == \A x \in S : x <= m
            Measured(s, n, w, e) ==
                /\ measurement.center = [lat2 |-> s + n, lng2 |-> w + e]
                /\ measurement.score = (n - s) * (e - w)
                /\ measurement.score >= 0
                /\ (n = s \/ e = w) => measurement.score = 0
        IN  \E s \in {m \in lats : IsLeast(lats, m)} :
            \E n \in {m \in lats : IsGreatest(lats, m)} :
            \E w \in {m \in lngs : IsLeast(lngs, m)} :
            \E e \in {m \in lngs : IsGreatest(lngs, m)} :
                Measured(s, n, w, e)

\* One piece whose hole ring lies outside its outer ring: the box runs over
\* the vertices of both rings.
MeasuredFromBoundingBoxWitness ==
    /\ measurement.measured
    /\ feature.geometry = MultiPolygonOf(<<PieceMenorcaWithHole>>)
    /\ measurement.center = [lat2 |-> 7955, lng2 |-> 700]
    /\ measurement.score = 4514

(***************************************************************************)
(* Properties of the markers (checked under SpecMarkers)                   *)
(***************************************************************************)
\* The entity has a region name, and it is n.
InRegion(q, n) == ~q.provincias.isNull /\ q.provincias.str # "" /\ q.provincias.str = n

\* The entities of the region n, in the order of the list.
EntitiesOf(n) ==
    LET Mine(q) == InRegion(q, n)
    IN  SelectSeq(profiles, Mine)

\* The markers of the entities of the region n, in the order of the markers.
MarkersOf(n) ==
    LET Mine(m) == InRegion(m.profile, n)
    IN  SelectSeq(avatarMarkers.markers, Mine)

\* C14: for every region with a centre the markers of its entities are as
\* many as the entities, the i-th marker is that of the i-th entity of the
\* region in list order and takes the i-th place around the centre, and a
\* lone marker is at the centre itself.
MarkersFollowListOrder ==
    avatarMarkers.computed =>
        \A n \in DOMAIN provinceCentroids :
            /\ Len(MarkersOf(n)) = Len(EntitiesOf(n))
            /\ \A i \in 1..Len(EntitiesOf(n)) :
                  /\ MarkersOf(n)[i].profile = EntitiesOf(n)[i]
                  /\ MarkersOf(n)[i].key = EntitiesOf(n)[i].id
                  /\ MarkersOf(n)[i].position.center = provinceCentroids[n]
                  /\ MarkersOf(n)[i].position.angle.num * Len(EntitiesOf(n))
                        = (i - 1) * MarkersOf(n)[i].position.angle.den
            /\ Len(EntitiesOf(n)) = 1 => MarkersOf(n)[1].position.radius = 0

\* Two entities of Madrid with one of Toledo between them: Toledo's lone
\* marker is at Toledo's centre, Madrid's are first and second on its circle.
MarkersFollowListOrderWitness ==
    /\ avatarMarkers.computed
    /\ profiles = <<Profile("b", Province("Madrid")), Profile("c", Province("Toledo")),
                    Profile("a", Province("Madrid"))>>
    /\ Len(avatarMarkers.markers) = 3
    /\ avatarMarkers.markers[1].key = "b"
    /\ avatarMarkers.markers[2].key = "a"
    /\ avatarMarkers.markers[3].key = "c"
    /\ avatarMarkers.markers[3].position.center = provinceCentroids["Toledo"]
    /\ avatarMarkers.markers[3].position.radius = 0
    /\ avatarMarkers.markers[2].position.radius > 0

\* C15: the markers of a region of count > 1 entities lie around its centre
\* at the radius min(0.15 + 0.02 * count, 0.5), which is 0.15 + 0.02 * count
\* up to count = 17 and 0.5 from 18 on, the i-th (from 0) at the angle of
\* i / count of a turn; for count = 4 the four points are distinct, each at
\* the distance of the radius from the centre, a quarter turn apart.
MarkersOnCappedCircle ==
    avatarMarkers.computed =>
        \A n \in DOMAIN provinceCentroids :
            LET ms == MarkersOf(n)
                count == Len(EntitiesOf(n))
            IN  count > 1 =>
                  /\ \A i \in 1..count :
                        /\ ms[i].position.center = provinceCentroids[n]
                        /\ ms[i].position.angle.num * count
                              = (i - 1) * ms[i].position.angle.den
                        /\ ms[i].position.radius
                              = IF count <= 17 THEN 150 + 20 * count ELSE 500
                        /\ ms[i].position.radius <= 500
                  /\ count = 4 =>
                        /\ \A i \in 1..4 :
                              LET o == QuarterTurnOffset(ms[i].position)
                              IN  o.lat * o.lat + o.lng * o.lng
                                    = ms[i].position.radius * ms[i].position.radius
                        /\ \A i \in 1..4, j \in 1..4 :
                              i # j => QuarterTurnOffset(ms[i].position)
                                          # QuarterTurnOffset(ms[j].position)
                        /\ \A i \in 1..3 :
                              4 * (ms[i + 1].position.angle.num - ms[i].position.angle.num)
                                  = ms[i].position.angle.den

\* Four entities of Madrid: radius 0.23, the markers due north, east, south
\* and west of the centre in the order of the list.
MarkersOnCappedCircleWitness ==
    /\ avatarMarkers.computed
    /\ profiles = Crowd(4)
    /\ Len(avatarMarkers.markers) = 4
    /\ \A i \in 1..4 : avatarMarkers.markers[i].key = ToString(i)
    /\ QuarterTurnOffset(avatarMarkers.markers[1].position) = [lat |-> 230, lng |-> 0]
    /\ QuarterTurnOffset(avatarMarkers.markers[2].position) = [lat |-> 0, lng |-> 230]
    /\ QuarterTurnOffset(avatarMarkers.markers[3].position) = [lat |-> -230, lng |-> 0]
    /\ QuarterTurnOffset(avatarMarkers.markers[4].position) = [lat |-> 0, lng |-> -230]

\* The region names the entities of the list have.
RegionNames ==
    {profiles[i].provincias.str :
        i \in {j \in 1..Len(profiles) : InRegion(profiles[j], profiles[j].provincias.str)}}

\* How often the value x occurs in the sequence seq.
CountIn(seq, x) == Cardinality({i \in 1..Len(seq) : seq[i] = x})

\* C18: the groups are those of the region names the entities have, each the
\* entities of that name in list order, so that an entity with no region
\* name is in no group; the occupied regions are the regions with a group,
\* and no group is empty; every entity whose region has a centre has one
\* marker, and no other entity has one; and the list itself is left as it
\* was.
GroupedByRegion ==
    /\ [](avatarMarkers.computed =>
            /\ DOMAIN profilesByProvince(profiles) = RegionNames
            /\ \A n \in RegionNames :
                  /\ profilesByProvince(profiles)[n] = EntitiesOf(n)
                  /\ Len(profilesByProvince(profiles)[n]) >= 1
            /\ occupiedProvinces(profiles) = RegionNames
            /\ \A i \in 1..Len(profiles) :
                  LET q == profiles[i]
                      markers == [k \in 1..Len(avatarMarkers.markers) |->
                                     avatarMarkers.markers[k].profile]
                  IN  CountIn(markers, q) =
                        IF \E n \in DOMAIN provinceCentroids : InRegion(q, n)
                        THEN CountIn(profiles, q)
                        ELSE 0
            /\ Len(avatarMarkers.markers) =
                  Cardinality({i \in 1..Len(profiles) :
                      \E n \in DOMAIN provinceCentroids : InRegion(profiles[i], n)}))
    /\ [][AvatarMarkers => profiles' = profiles]_vars

\* Entities of Madrid, of a region the map does not have, of no region and
\* of the region "": two groups, two occupied regions, one marker.
GroupedByRegionWitness ==
    /\ avatarMarkers.computed
    /\ profiles = <<Profile("e", Province("Atlantis")), Profile("f", NoProvince),
                    Profile("g", Province("")), Profile("a", Province("Madrid"))>>
    /\ occupiedProvinces(profiles) = {"Atlantis", "Madrid"}
    /\ Len(avatarMarkers.markers) = 1
    /\ avatarMarkers.markers[1].key = "a"

(***************************************************************************)
(* Hover bookkeeping (checked under Spec)                                  *)
(***************************************************************************)
\* C22: whatever mouseover and mouseout events have been handled, a layer
\* that carries HOVER_STYLE is the layer prevHoveredRef refers to, so that
\* no two layers carry it.
HoverStyleOnlyOnRef ==
    /\ \A l \in Layers : Carries(layerOptions[l], HOVER_STYLE) => PointerOn(l)
    /\ Cardinality({l \in Layers : Carries(layerOptions[l], HOVER_STYLE)}) <= 1

\* The pointer went from Madrid to Mallorca with no mouseout of Madrid seen,
\* and a mouseout of Sevilla came after: Mallorca alone is styled hovered.
HoverStyleOnlyOnRefWitness ==
    /\ mouseoverBranch = "none"
    /\ hovered = NoHovered
    /\ PointerOn(LayerOf("Mallorca"))
    /\ selectedProvince = Province("Toledo")
    /\ {l \in Layers : Carries(layerOptions[l], HOVER_STYLE)} = {LayerOf("Mallorca")}

\* C23: hovered is null exactly when prevHoveredRef is null, and when they
\* are not, they name the same province.
HoveredAgreesWithRef ==
    /\ hovered.isNull <=> prevHoveredRef.isNull
    /\ ~hovered.isNull => hovered.province = prevHoveredRef.province

(***************************************************************************)
(* The split applied twice (checked under SpecLoad)                        *)
(***************************************************************************)
\* C28: splitArchipelagos applied to the collection it returned returns and
\* gives the same regions in the same order, with the same properties and
\* the same lists of pieces.
SplitIsIdempotent ==
    Loaded =>
        /\ ~splitArchipelagos(geoData).threw
        /\ splitArchipelagos(geoData).value = geoData.features

\* A collection whose second feature was split in two: the three regions
\* come out of a second split as they are.
SplitIsIdempotentWitness ==
    /\ Loaded
    /\ data.features = <<MadridLarge, Balears>>
    /\ Len(geoData.features) = 3
    /\ getFeatureLabel(geoData.features[2]) = "Mallorca"
    /\ getFeatureLabel(geoData.features[3]) = "Ibiza"
    /\ splitArchipelagos(geoData).value = geoData.features

(***************************************************************************)
(* The page (src/src/routes/index.tsx) and the queries it makes            *)
(* (src/src/lib/provinces.ts)                                              *)
(*                                                                         *)
(* The table provincias is fixed: its row k has id k.  The table profiles  *)
(* is written by setUserProvince only.  A query of the page either fails   *)
(* or answers from the tables as they are when it settles.                 *)
(***************************************************************************)
\* Largest number of loadProfiles calls of the effect that are in progress.
MaxLoads == 2

\* The nombre column of the table provincias, by id.
Provincias == <<"Madrid", "Toledo">>

SessionValues == {NoSession, Session("u1")}

Row(userId, provinciaId) == [id |-> userId, provincia_id |-> provinciaId]

\* session?.user?.id of lines 61 and 93 taken as a condition.
HasUserId(s) == ~s.isNull /\ s.user.id # ""

\* !pendingProvince of line 93.
NoPending(pending) == pending.isNull \/ pending.str = ""

\* !session of line 74 taken as never true.
NoSessionNever(s) == FALSE

\* !session of line 74.
NoSessionFor(s) == s.isNull

\* provinceName === myProvince of line 80.
SameProvince(name, mine) == ~mine.isNull /\ mine.str = name

\* !provinciaId of line 98.
NoProvinciaId(provinciaId) == provinciaId.isNull \/ provinciaId.num = 0

\* The ids of the rows of provincias with this nombre.
ProvinciaIds(nombre) == {k \in 1..Len(Provincias) : Provincias[k] = nombre}

\* fetchProvinciaIdByName: .single() is an error unless exactly one row
\* matches, and an error gives null.
fetchProvinciaIdByName(nombre, failed) ==
    IF failed \/ Cardinality(ProvinciaIds(nombre)) # 1
    THEN NoId
    ELSE Id(CHOOSE k \in ProvinciaIds(nombre) : TRUE)

\* The join provincias(nombre) of a row of profiles.
NombreOf(provinciaId) ==
    IF provinciaId.isNull \/ provinciaId.num \notin 1..Len(Provincias)
    THEN NoProvince
    ELSE Province(Provincias[provinciaId.num])

\* fetchAllProfiles: the rows newest first, or [] after an error.
fetchAllProfiles(rows, failed) ==
    IF failed
    THEN <<>>
    ELSE [k \in 1..Len(rows) |-> Profile(rows[k].id, NombreOf(rows[k].provincia_id))]

\* The rows of profiles after the update of setUserProvince: the rows of the
\* user get the province and the newest updated_at, so they come first.
RowsAfterUpdate(rows, userId, provinciaId) ==
    LET hits == SelectSeq(rows, LAMBDA r : r.id = userId)
    IN  [k \in 1..Len(hits) |-> Row(userId, provinciaId)]
        \o SelectSeq(rows, LAMBDA r : r.id # userId)

\* setUserProvince: what it answers.
setUserProvince(failed) == [success |-> ~failed]

\* result.success of line 109 taken as always true.
UpdateSucceededAlways(result) == TRUE

\* result.success of line 109.
UpdateSucceeded(result) == result.success

\* mine?.provincias?.nombre ?? null of lines 62-63.
MineOf(fetched, s) ==
    LET hits == {k \in 1..Len(fetched) : fetched[k].id = s.user.id}
    IN  IF hits = {}
        THEN NoProvince
        ELSE fetched[CHOOSE k \in hits : \A j \in hits : k <= j].provincias

\* myProvince once loadProfiles has gone through lines 61-64.
MyProvinceAfterLoad(s, fetched, mine) ==
    IF HasUserId(s) THEN MineOf(fetched, s) ELSE mine

LoadsInProgress == loadCalls[NoSession] + loadCalls[Session("u1")]

\* The props of lines 143-148.
SpainMapProps ==
    /\ selectedProvince' = myProvince'
    /\ dialogOpen' = confirmOpen'

TableInputs ==
    { <<Row("u2", Id(2)), Row("u1", NoId)>>,
      <<Row("u1", Id(1)), Row("u2", Id(2))>>,
      <<Row("u2", Id(2))>> }

ClickInputs == {"Madrid", "Toledo", "Atlantis", ""}

\* The page as first rendered, the effects of lines 40-53 and 67-69 run:
\* getSession is pending and loadProfiles was called without a session.
InitPage ==
    /\ session = NoSession
    /\ loading = TRUE
    /\ myProvince = NoProvince
    /\ confirmOpen = FALSE
    /\ pendingProvince = NoProvince
    /\ saving = FALSE
    /\ toast = "none"
    /\ table \in TableInputs
    /\ loadCalls = [s \in SessionValues |-> IF s = NoSession THEN 1 ELSE 0]
    /\ confirmCall = NoCall
    /\ SplitIdle
    /\ LoadIdle
    /\ MapIdle
    /\ MarkersIdle

\* setSession(s) followed by the effect of lines 67-69, which calls the new
\* loadProfiles when the session is another value than before.
SetSession(s) ==
    /\ session' = s
    /\ loadCalls' = IF s = NoSession /\ session = NoSession
                    THEN loadCalls
                    ELSE [loadCalls EXCEPT ![s] = @ + 1]

\* The promise of getSession settles (lines 41-44).
GetSessionResolved(s) ==
    /\ loading
    /\ LoadsInProgress < MaxLoads
    /\ SetSession(s)
    /\ loading' = FALSE
    /\ UNCHANGED <<profiles, myProvince, confirmOpen, pendingProvince, saving, toast,
                   table, confirmCall>>
    /\ SpainMapProps
    /\ UNCHANGED <<splitVars, loadVars, mapVars, avatarMarkers>>

\* The listener of lines 46-50 is called.
AuthStateChange(s) ==
    /\ ~(s = NoSession /\ session = NoSession)
    /\ LoadsInProgress < MaxLoads
    /\ SetSession(s)
    /\ UNCHANGED <<loading, profiles, myProvince, confirmOpen, pendingProvince, saving,
                   toast, table, confirmCall>>
    /\ SpainMapProps
    /\ UNCHANGED <<splitVars, loadVars, mapVars, avatarMarkers>>

\* A loadProfiles call of the effect settles (lines 56-65): s is the session
\* it closed over.
LoadProfilesResolved(s, failed) ==
    /\ loadCalls[s] > 0
    /\ loadCalls' = [loadCalls EXCEPT ![s] = @ - 1]
    /\ LET fetched == fetchAllProfiles(table, failed)
       IN  /\ profiles' = fetched
           /\ myProvince' = MyProvinceAfterLoad(s, fetched, myProvince)
    /\ UNCHANGED <<session, loading, confirmOpen, pendingProvince, saving, toast,
                   table, confirmCall>>
    /\ SpainMapProps
    /\ UNCHANGED <<splitVars, loadVars, mapVars, avatarMarkers>>

\* handleProvinceSelect(name) of lines 72-89; the map is rendered once
\* loading is false (line 122).
HandleProvinceSelect(name) ==
    /\ ~loading
    /\ IF NoSessionFor(session)
       THEN /\ toast' = "Inicia sesion para seleccionar tu provincia"
            /\ UNCHANGED <<pendingProvince, confirmOpen>>
       ELSE IF SameProvince(name, myProvince)
            THEN /\ toast' = "Ya estas en esta provincia"
                 /\ UNCHANGED <<pendingProvince, confirmOpen>>
            ELSE /\ pendingProvince' = Province(name)
                 /\ confirmOpen' = TRUE
                 /\ UNCHANGED toast
    /\ UNCHANGED <<session, loading, profiles, myProvince, saving, table, loadCalls,
                   confirmCall>>
    /\ SpainMapProps
    /\ UNCHANGED <<splitVars, loadVars, mapVars, avatarMarkers>>

\* onOpenChange(false) of line 164: the dialog is dismissed; its Cancel
\* button is disabled while saving (line 177).
DialogDismissed ==
    /\ ~loading
    /\ confirmOpen
    /\ ~saving
    /\ confirmOpen' = FALSE
    /\ UNCHANGED <<session, loading, profiles, myProvince, pendingProvince, saving,
                   toast, table, loadCalls, confirmCall>>
    /\ SpainMapProps
    /\ UNCHANGED <<splitVars, loadVars, mapVars, avatarMarkers>>

\* handleConfirmProvince is called (lines 92-96): the button of line 178 is
\* there while the dialog is open and enabled while saving is false.
ConfirmStart ==
    /\ ~loading
    /\ confirmOpen
    /\ ~saving
    /\ confirmCall.pc = "idle"
    /\ IF ~HasUserId(session) \/ NoPending(pendingProvince)
       THEN /\ confirmCall' = [NoCall EXCEPT !.outcome = "returned"]
            /\ UNCHANGED saving
       ELSE /\ saving' = TRUE
            /\ confirmCall' = [pc |-> "lookup", session |-> session,
                               pendingProvince |-> pendingProvince,
                               provinciaId |-> NoId, outcome |-> "none"]
    /\ UNCHANGED <<session, loading, profiles, myProvince, confirmOpen, pendingProvince,
                   toast, table, loadCalls>>
    /\ SpainMapProps
    /\ UNCHANGED <<splitVars, loadVars, mapVars, avatarMarkers>>

\* fetchProvinciaIdByName settles (lines 96-105).
ConfirmLookupResolved(failed) ==
    /\ confirmCall.pc = "lookup"
    /\ LET provinciaId == fetchProvinciaIdByName(confirmCall.pendingProvince.str, failed)
       IN  IF NoProvinciaId(provinciaId)
           THEN /\ toast' = "No se encontro la provincia"
                /\ saving' = FALSE
                /\ confirmOpen' = FALSE
                /\ confirmCall' = [NoCall EXCEPT !.outcome = "miss"]
           ELSE /\ confirmCall' = [confirmCall EXCEPT !.pc = "update",
                                                      !.provinciaId = provinciaId]
                /\ UNCHANGED <<toast, saving, confirmOpen>>
    /\ UNCHANGED <<session, loading, profiles, myProvince, pendingProvince, table,
                   loadCalls>>
    /\ SpainMapProps
    /\ UNCHANGED <<splitVars, loadVars, mapVars, avatarMarkers>>

\* setUserProvince settles (lines 107-119).
ConfirmUpdateResolved(failed) ==
    /\ confirmCall.pc = "update"
    /\ table' = IF failed
                THEN table
                ELSE RowsAfterUpdate(table, confirmCall.session.user.id,
                                     confirmCall.provinciaId)
    /\ IF UpdateSucceeded(setUserProvince(failed))
       THEN /\ myProvince' = confirmCall.pendingProvince
            /\ toast' = "Te has ubicado"
            /\ confirmCall' = [confirmCall EXCEPT !.pc = "reload"]
            /\ UNCHANGED <<saving, confirmOpen, pendingProvince>>
       ELSE /\ toast' = "Error"
            /\ saving' = FALSE
            /\ confirmOpen' = FALSE
            /\ pendingProvince' = NoProvince
            /\ confirmCall' = [NoCall EXCEPT !.outcome = "failed"]
            /\ UNCHANGED myProvince
    /\ UNCHANGED <<session, loading, profiles, loadCalls>>
    /\ SpainMapProps
    /\ UNCHANGED <<splitVars, loadVars, mapVars, avatarMarkers>>

\* The loadProfiles awaited at line 112 settles, and lines 117-119 follow.
ConfirmReloadResolved(failed) ==
    /\ confirmCall.pc = "reload"
    /\ LET fetched == fetchAllProfiles(table, failed)
       IN  /\ profiles' = fetched
           /\ myProvince' = MyProvinceAfterLoad(confirmCall.session, fetched, myProvince)
    /\ saving' = FALSE
    /\ confirmOpen' = FALSE
    /\ pendingProvince' = NoProvince
    /\ confirmCall' = [NoCall EXCEPT !.outcome = "success"]
    /\ UNCHANGED <<session, loading, toast, table, loadCalls>>
    /\ SpainMapProps
    /\ UNCHANGED <<splitVars, loadVars, mapVars, avatarMarkers>>

NextPage ==
    \/ \E s \in SessionValues : GetSessionResolved(s)
    \/ \E s \in SessionValues : AuthStateChange(s)
    \/ \E s \in SessionValues, failed \in BOOLEAN : LoadProfilesResolved(s, failed)
    \/ \E name \in ClickInputs : HandleProvinceSelect(name)
    \/ DialogDismissed
    \/ ConfirmStart
    \/ \E failed \in BOOLEAN : ConfirmLookupResolved(failed)
    \/ \E failed \in BOOLEAN : ConfirmUpdateResolved(failed)
    \/ \E failed \in BOOLEAN : ConfirmReloadResolved(failed)

SpecPage == InitPage /\ [][NextPage]_vars

(***************************************************************************)
(* Properties of the page (checked under SpecPage)                         *)
(***************************************************************************)
\* What the page keeps besides the dialog and the toast.
PageData == <<session, loading, profiles, myProvince, saving, table, loadCalls>>

\* C21: handleProvinceSelect opens the confirmation dialog, with the clicked
\* name pending, only when there is a session and the name is not
\* myProvince; without a session, or for the name that myProvince already
\* is, confirmOpen and pendingProvince stay as they were; and in no case is
\* anything written to the table or to myProvince.
SelectOpensDialogOnlyWhenAllowed ==
    [][\A name \in ClickInputs :
          HandleProvinceSelect(name) =>
              /\ UNCHANGED PageData
              /\ IF ~session.isNull /\ myProvince # Province(name)
                 THEN confirmOpen' /\ pendingProvince' = Province(name)
                 ELSE UNCHANGED <<confirmOpen, pendingProvince>>]_vars

\* A click without a session was refused: no dialog, nothing pending.
SelectOpensDialogOnlyWhenAllowedWitness ==
    /\ ~loading
    /\ session = NoSession
    /\ toast = "Inicia sesion para seleccionar tu provincia"
    /\ ~confirmOpen
    /\ pendingProvince = NoProvince
    /\ confirmCall = NoCall

\* C24: when handleConfirmProvince, started with a session and a pending
\* province, has had its lookup and its update succeed, then at its
\* completion, the reload of line 112 included, myProvince is the province
\* that was pending when it started.
ConfirmedProvinceIsMyProvince ==
    [][(confirmCall.pc = "reload" /\ confirmCall'.pc = "idle")
          => myProvince' = confirmCall.pendingProvince]_vars

\* C25: handleConfirmProvince leaves myProvince alone on its failure paths:
\* without a session or a pending province it changes nothing; after a
\* lookup that found nothing it ends without calling setUserProvince, so
\* that the table is as before; after an update that failed it ends with
\* myProvince as before and without reloading the profiles.
ConfirmFailuresKeepMyProvince ==
    [][/\ (ConfirmStart /\ (~HasUserId(session) \/ NoPending(pendingProvince)))
             => /\ UNCHANGED PageData
                /\ UNCHANGED <<confirmOpen, pendingProvince, toast>>
                /\ confirmCall'.pc = "idle"
       /\ \A failed \in BOOLEAN :
             (/\ ConfirmLookupResolved(failed)
              /\ NoProvinciaId(fetchProvinciaIdByName(confirmCall.pendingProvince.str,
                                                      failed)))
                 => /\ confirmCall'.pc = "idle"
                    /\ UNCHANGED <<table, myProvince, profiles>>
       /\ (confirmCall.pc = "update" /\ ConfirmUpdateResolved(TRUE))
             => /\ confirmCall'.pc = "idle"
                /\ UNCHANGED <<table, myProvince, profiles>>]_vars

\* A call ended on the failure of the update: the user is still in Madrid.
ConfirmFailuresKeepMyProvinceWitness ==
    /\ confirmCall.outcome = "failed"
    /\ toast = "Error"
    /\ session = Session("u1")
    /\ myProvince = Province("Madrid")
    /\ table = <<Row("u1", Id(1)), Row("u2", Id(2))>>

\* C26: when a handleConfirmProvince that went past line 93 completes, on
\* whichever path, saving and confirmOpen are false and pendingProvince is
\* null.
ConfirmCompletionResetsDialog ==
    [][(confirmCall.pc # "idle" /\ confirmCall'.pc = "idle")
          => /\ ~saving'
             /\ ~confirmOpen'
             /\ pendingProvince' = NoProvince]_vars

\* C27: once the loads that were started have settled and no confirmation is
\* in progress, myProvince is null unless there is a session.
MyProvinceOnlyWithSession ==
    (session = NoSession /\ LoadsInProgress = 0 /\ confirmCall.pc = "idle")
        => /\ myProvince = NoProvince
           /\ selectedProvince = NoProvince

====
